---- MODULE Spec2Model ----
(***************************************************************************)
(* Model of the page generator of ai-first-react-starter:                  *)
(*   src/cli/index.js            AIFirstCLI.generatePage                   *)
(*   src/generators/page-generator.js   generatePage, updateRouting        *)
(*                                                                         *)
(* Text is a sequence of chunks (strings); the text it stands for is the   *)
(* concatenation of the chunks.  Identifiers are sequences of one-letter   *)
(* chunks, so that endsWith, replace, toLowerCase and the regular          *)
(* expressions of the source are computed letter by letter; the fixed      *)
(* pieces of routes.ts ("import ", "from ", "@pages/", "const routes",     *)
(* "[", the line feed ...) are one chunk each.                             *)
(***************************************************************************)
EXTENDS Integers, Sequences, FiniteSets, TLC

\* ---------------------------------------------------------------- bounds
\* number of words a base name is made of
MaxWords == 2
\* number of lines of a routes.ts that exists before the first run
MaxLines == 2
\* number of generator runs in one behaviour
MaxRuns == 3

\* ------------------------------------------------------------ characters
NL == "\n"
Page == <<"P", "a", "g", "e">>

UpperCase == {"B", "P"}
LowerCase == {"a", "b", "e", "g", "p"}

\* String.prototype.toLowerCase on one letter
ToLowerChar(c) ==
  CASE c = "B" -> "b"
    [] c = "P" -> "p"
    [] OTHER -> c

\* String.prototype.toLowerCase
ToLowerCase(s) == [i \in 1..Len(s) |-> ToLowerChar(s[i])]

\* ------------------------------------------------------ string primitives
\* s has sub at position i
OccursAt(s, sub, i) ==
  /\ i >= 1
  /\ i + Len(sub) - 1 <= Len(s)
  /\ \A k \in 1..Len(sub) : s[i + k - 1] = sub[k]

\* String.prototype.indexOf(sub, i) (1-based, 0 when absent)
IndexFrom(s, sub, i) ==
  LET found == {j \in i..(Len(s) - Len(sub) + 1) : OccursAt(s, sub, j)}
  IN  IF found = {} THEN 0
      ELSE CHOOSE j \in found : \A k \in found : j <= k

\* String.prototype.indexOf
IndexOf(s, sub) == IndexFrom(s, sub, 1)

\* String.prototype.includes
Includes(s, sub) == IndexOf(s, sub) # 0

\* String.prototype.endsWith
EndsWith(s, suffix) == OccursAt(s, suffix, Len(s) - Len(suffix) + 1)

\* String.prototype.replace(sub, '') with a string pattern: the FIRST
\* occurrence only, wherever it is
RemoveFirst(s, sub) ==
  LET i == IndexOf(s, sub)
  IN  IF i = 0 THEN s
      ELSE SubSeq(s, 1, i - 1) \o SubSeq(s, i + Len(sub), Len(s))

\* String.prototype.replace(/([a-z])([A-Z])/g, '$1' + sep + '$2')
RECURSIVE ReplaceBoundary(_, _, _)
ReplaceBoundary(s, i, sep) ==
  IF i > Len(s) THEN <<>>
  ELSE IF i < Len(s) /\ s[i] \in LowerCase /\ s[i + 1] \in UpperCase
       THEN <<s[i], sep, s[i + 1]>> \o ReplaceBoundary(s, i + 2, sep)
       ELSE <<s[i]>> \o ReplaceBoundary(s, i + 1, sep)

\* ----------------------------------------------------------- base names
Words == {<<"a", "B">>, Page}

RECURSIVE Concat(_)
Concat(ws) == IF ws = <<>> THEN <<>> ELSE Head(ws) \o Concat(Tail(ws))

\* the base names given on the command line: one to MaxWords words
Names == {Concat(ws) : ws \in UNION {[1..n -> Words] : n \in 1..MaxWords}}

\* ------------------------------------------------- derived identifiers
\* page-generator.js:22
PageNameOf(name) == IF EndsWith(name, Page) THEN name ELSE name \o Page

\* page-generator.js:23
EntityNameOf(name) == RemoveFirst(name, Page)

\* page-generator.js:32
KebabNameOf(name) == ToLowerCase(ReplaceBoundary(EntityNameOf(name), 1, "-"))

\* page-generator.js:38
PageTitleOf(name) == ReplaceBoundary(EntityNameOf(name), 1, " ")

\* page-generator.js:26 (outputPath keeps its default)
PageDirOf(name) == <<"src/pages/">> \o EntityNameOf(name)

\* cli/index.js:212
RouteOf(name) == <<"/">> \o ToLowerCase(RemoveFirst(name, Page))

\* what one run of `generate page <name>` derives from the name
Derive(name) ==
  [ pageName   |-> PageNameOf(name),
    entityName |-> EntityNameOf(name),
    kebabName  |-> KebabNameOf(name),
    pageTitle  |-> PageTitleOf(name),
    pageDir    |-> PageDirOf(name),
    route      |-> RouteOf(name) ]

\* ------------------------------------------------------------ routes.ts
\* the search token written with the other quote
PathTokenDoubleQuoted(route) == <<"path: ", "\"">> \o route \o <<"\"">>

\* page-generator.js:140  `path: '${route}'`
PathToken(route) == <<"path: ", "'">> \o route \o <<"'">>

\* page-generator.js:146
ImportStatement(pageName, entityName) ==
  <<"import ", "{ ">> \o pageName \o <<" } ", "from ", "'", "@pages/">>
    \o entityName \o <<"'", ";">>

\* page-generator.js:154-157
RouteConfig(pageName, route) ==
  <<"  {", NL, "    ", "path: ", "'">> \o route \o <<"'", ",", NL, "    element: <">>
    \o pageName \o <<" />,", NL, "  },">>

\* the new file without the import of the page
NewRoutesFileNoImport(pageName, entityName, route) ==
  <<"import ", "React ", "from ", "'", "react", "'", ";", NL, NL>>
    \o <<"export ", "const routes", " = ", "[", NL>>
    \o RouteConfig(pageName, route) \o <<NL, "];", NL>>

\* page-generator.js:169-178
NewRoutesFile(pageName, entityName, route) ==
  <<"import ", "React ", "from ", "'", "react", "'", ";", NL>>
    \o ImportStatement(pageName, entityName) \o <<NL, NL>>
    \o <<"export ", "const routes", " = ", "[", NL>>
    \o RouteConfig(pageName, route) \o <<NL, "];", NL>>

Quotes == {"'", "\""}

\* position of the first line feed at or after i, 0 when there is none
LineEnd(s, i) == IndexFrom(s, <<NL>>, i)

\* /(import.*from.*['"]@pages.*['"];?\n)/ matches inside this line (the
\* line feed is its last chunk; `.` matches no line feed)
\* The pieces of the pattern are looked for from left to right, each at
\* its first place after the one before: `.*` accepts whatever lies between,
\* so the pattern matches the line iff it matches with these places.
MatchesPagesImport(line) ==
  LET i == IndexFrom(line, <<"import ">>, 1)
      j == IF i = 0 THEN 0 ELSE IndexFrom(line, <<"from ">>, i + 1)
      k1 == IF j = 0 THEN 0 ELSE IndexFrom(line, <<"'", "@pages/">>, j + 1)
      k2 == IF j = 0 THEN 0 ELSE IndexFrom(line, <<"\"", "@pages/">>, j + 1)
      k == IF k1 = 0 THEN k2 ELSE IF k2 = 0 THEN k1 ELSE IF k1 < k2 THEN k1 ELSE k2
      n == Len(line)
  IN  /\ k # 0
      /\ \/ n - 1 >= k + 2 /\ line[n - 1] \in Quotes
         \/ n - 2 >= k + 2 /\ line[n - 1] = ";" /\ line[n - 2] \in Quotes

\* content.replace(/(import.*from.*['"]@pages.*['"];?\n)/g, `$1${stmt}\n`)
\* page-generator.js:148-151: the g flag replaces EVERY match
RECURSIVE InsertImport(_, _, _)
InsertImport(s, i, stmt) ==
  IF i > Len(s) THEN <<>>
  ELSE LET e == LineEnd(s, i)
       IN  IF e = 0 THEN SubSeq(s, i, Len(s))
           ELSE LET line == SubSeq(s, i, e)
                IN  line
                      \o (IF MatchesPagesImport(line) THEN stmt \o <<NL>> ELSE <<>>)
                      \o InsertImport(s, e + 1, stmt)

\* the last "[" of the line, looked for from position k on (best so far)
LastBracket(s, k, best) ==
  LET e == LineEnd(s, k)
      last == IF e = 0 THEN Len(s) ELSE e - 1
      found == {j \in k..last : s[j] = "["}
  IN  IF found = {} THEN best
      ELSE CHOOSE j \in found : \A m \in found : m <= j

\* where /(const routes.*\[)/ first matches at or after i: the position of
\* the "[" that ends the match (`.*` is greedy and stays on the line), 0 when
\* the pattern matches nowhere
RoutesArrayEnd(s, i) ==
  LET found == {j \in i..Len(s) :
                  s[j] = "const routes" /\ LastBracket(s, j + 1, 0) # 0}
  IN  IF found = {} THEN 0
      ELSE LastBracket(s, (CHOOSE j \in found : \A k \in found : j <= k) + 1, 0)

\* content.replace(/(const routes.*\[)/, `$1\n${config}`)
\* page-generator.js:159-162: no g flag, the first match only
InsertRoute(s, config) ==
  LET j == RoutesArrayEnd(s, 1)
  IN  IF j = 0 THEN s
      ELSE SubSeq(s, 1, j) \o <<NL>> \o config \o SubSeq(s, j + 1, Len(s))

\* updateRouting whose "already exists" branch lacks its return
UpdateRoutingNoReturn(exists, content, pageName, entityName, route) ==
  IF exists
  THEN LET importStatement == ImportStatement(pageName, entityName)
       IN  IF ~Includes(content, importStatement)
           THEN [exists |-> TRUE,
                 file |-> InsertRoute(InsertImport(content, 1, importStatement),
                                      RouteConfig(pageName, route)),
                 console |-> "added", written |-> TRUE]
           ELSE [exists |-> TRUE, file |-> content,
                 console |-> IF Includes(content, PathToken(route))
                             THEN "already exists" ELSE "",
                 written |-> FALSE]
  ELSE [exists |-> TRUE, file |-> NewRoutesFile(pageName, entityName, route),
        console |-> "created", written |-> TRUE]

\* page-generator.js:133-182.  Returns what is on disk afterwards, what was
\* logged and whether fs.writeFileSync was called.
UpdateRouting(exists, content, pageName, entityName, route) ==
  IF exists
  THEN IF Includes(content, PathToken(route))
       THEN [exists |-> TRUE, file |-> content, console |-> "already exists",
             written |-> FALSE]
       ELSE LET importStatement == ImportStatement(pageName, entityName)
            IN  IF ~Includes(content, importStatement)
                THEN LET updatedContent == InsertImport(content, 1, importStatement)
                         finalContent ==
                           InsertRoute(updatedContent, RouteConfig(pageName, route))
                     IN  [exists |-> TRUE, file |-> finalContent,
                          console |-> "added", written |-> TRUE]
                ELSE [exists |-> TRUE, file |-> content, console |-> "",
                      written |-> FALSE]
  ELSE [exists |-> TRUE, file |-> NewRoutesFile(pageName, entityName, route),
        console |-> "created", written |-> TRUE]

\* --------------------------------------------- routes.ts before the runs
\* The lines a routes.ts written or edited by hand is made of.
ReactImportLine == <<"import ", "React ", "from ", "'", "react", "'", ";", NL>>
OwnImportLine == ImportStatement(<<"a", "B">> \o Page, <<"a", "B">>) \o <<NL>>
HomeImportLine ==
  <<"import ", "{ ", "HomePage", " } ", "from ", "\"", "@pages/", "Home", "\"", NL>>
ArrayOpenLine == <<"export ", "const routes", " = ", "[", NL>>
OwnEntryLines == RouteConfig(<<"a", "B">> \o Page, <<"/", "a", "b">>) \o <<NL>>
ArrayCloseLine == <<"];", NL>>
EmptyArrayTail == <<"export ", "const routes", " = ", "[", "]", ";">>
CommentLine == <<"// routes", NL>>

LineTemplates ==
  { ReactImportLine, OwnImportLine, HomeImportLine, ArrayOpenLine,
    OwnEntryLines, ArrayCloseLine, EmptyArrayTail, CommentLine }

InitDocs ==
  {Concat(ls) : ls \in UNION {[1..n -> LineTemplates] : n \in 0..MaxLines}}

\* -------------------------------------------------------- template data
\* cli/index.js:202
DescriptionOf(name) ==
  RemoveFirst(name, Page) \o <<" management page with CRUD operations">>

\* the store data with the CRUD actions in another order
MockStoreDataSorted(entityName) ==
  << [ storeName |-> ToLowerCase(entityName) \o <<"Store">>,
       properties |->
         << [name |-> <<"loading">>, value |-> <<"false">>],
            [name |-> <<"error">>, value |-> <<"null">>],
            [name |-> ToLowerCase(entityName) \o <<"s">>, value |-> <<"[]">>] >>,
       actions |->
         << [name |-> <<"create">> \o entityName],
            [name |-> <<"delete">> \o entityName],
            [name |-> <<"fetch">> \o entityName \o <<"List">>],
            [name |-> <<"update">> \o entityName] >> ] >>

\* page-generator.js:70-83
MockStoreData(entityName) ==
  << [ storeName |-> ToLowerCase(entityName) \o <<"Store">>,
       properties |->
         << [name |-> <<"loading">>, value |-> <<"false">>],
            [name |-> <<"error">>, value |-> <<"null">>],
            [name |-> ToLowerCase(entityName) \o <<"s">>, value |-> <<"[]">>] >>,
       actions |->
         << [name |-> <<"fetch">> \o entityName \o <<"List">>],
            [name |-> <<"create">> \o entityName],
            [name |-> <<"update">> \o entityName],
            [name |-> <<"delete">> \o entityName] >> ] >>

\* page-generator.js:33-85 (components keeps its default, the empty list)
TemplateData(name, hasStore, hasService) ==
  LET entityName == EntityNameOf(name)
      store == ToLowerCase(entityName) \o <<"Store">>
  IN  [ pageName    |-> PageNameOf(name),
        entityName  |-> entityName,
        kebabName   |-> KebabNameOf(name),
        description |-> DescriptionOf(name),
        pageTitle   |-> PageTitleOf(name),
        hasStore    |-> hasStore,
        hasService  |-> hasService,
        hasRouter   |-> FALSE,
        hasState    |-> FALSE,
        hasEffects  |-> hasStore,
        hasLoading  |-> hasStore,
        hasError    |-> hasStore,
        hasActions  |-> TRUE,
        components  |-> <<>>,
        storeNames  |-> IF hasStore THEN store ELSE <<>>,
        storeName   |-> store,
        storeActions |->
          IF hasStore THEN << <<"fetch">> \o entityName \o <<"List">> >> ELSE <<>>,
        futureProps |->
          <<"{{ v7_startTransition: true, v7_relativeSplatPath: true }}">>,
        loadingCondition |->
          IF hasStore THEN store \o <<".loading">> ELSE <<"false">>,
        errorCondition |-> IF hasStore THEN store \o <<".error">> ELSE <<"false">>,
        errorMessage |-> IF hasStore THEN store \o <<".error">> ELSE <<"null">>,
        actions |->
          << [ text |-> <<"Add ">> \o entityName,
               type |-> <<"primary">>,
               onClick |-> <<"{handleAdd">> \o entityName \o <<"}">> ] >>,
        handlers |->
          << [ name |-> <<"handleAdd">> \o entityName,
               parameters |-> <<>>,
               body |-> <<"console.log('Add ">> \o entityName \o <<" clicked');">> ] >>,
        mockStoreData |-> IF hasStore THEN MockStoreData(entityName) ELSE <<>> ]

NoTemplateData == TemplateData(<<>>, FALSE, FALSE)

\* ------------------------------------------------------------ templates
\* A template is a sequence of segments: literal text, {{key}},
\* {{#if key}} and {{/if}}.
Text(v) == [t |-> "text", v |-> v]
Var(key) == [t |-> "var", v |-> <<key>>]
If(key) == [t |-> "if", v |-> <<key>>]
EndIf == [t |-> "end", v |-> <<>>]

\* templates/page/Page.tsx.hbs (the lines of it that docs/generators.md shows)
PageTemplate ==
  << Text(<<"import React from 'react';", NL>>),
     If("hasStore"),
     Text(<<"import { useStore } from '@stores';", NL>>),
     EndIf,
     Text(<<"const ">>), Var("pageName"),
     Text(<<"Wrapper = styled(Content)", NL>>),
     If("customStyles"), Text(<<"  ">>), Var("customStyles"), Text(<<NL>>), EndIf,
     Text(<<";", NL>>),
     If("hasStore"),
     Text(<<"  const { ">>), Var("storeNames"), Text(<<" } = useStore();", NL>>),
     EndIf,
     Text(<<"<Title>">>), Var("pageTitle"), Text(<<"</Title>", NL>>) >>

\* templates/page/Page.test.tsx.hbs
TestTemplate ==
  << Text(<<"describe('">>), Var("pageName"), Text(<<"', () => {});", NL>>) >>

\* templates/page/index.ts.hbs
IndexTemplate ==
  << Text(<<"export { ">>), Var("pageName"), Text(<<" } from './">>),
     Var("pageName"), Text(<<"';", NL>>) >>

\* the template of artifact k: Page, Page.test, index
TemplateOf(k) ==
  CASE k = 1 -> PageTemplate
    [] k = 2 -> TestTemplate
    [] k = 3 -> IndexTemplate

\* a template edited to use a key the generator does not provide
WithMissingKey(tpl) == tpl \o <<Text(<<"// ">>), Var("author"), Text(<<NL>>)>>

\* a template edited to leave a block open
WithOpenBlock(tpl) == tpl \o <<If("hasStore"), Text(<<"// store", NL>>)>>

\* the keys of the template data that hold true or false
BoolKeys ==
  { "hasStore", "hasService", "hasRouter", "hasState", "hasEffects",
    "hasLoading", "hasError", "hasActions" }

\* {{#if key}}: a key the context lacks is falsy
Truthy(ctx, key) ==
  /\ key \in DOMAIN ctx
  /\ IF key \in BoolKeys THEN ctx[key] ELSE ctx[key] # <<>>

\* {{key}}: a key the context lacks renders as nothing (Handlebars is
\* compiled without `strict`)
Lookup(ctx, key) == IF key \in DOMAIN ctx THEN ctx[key] ELSE <<>>

\* every {{#if}} of the template is closed and every {{/if}} closes one
RECURSIVE Balanced(_, _, _)
Balanced(tpl, i, depth) ==
  IF i > Len(tpl) THEN depth = 0
  ELSE IF tpl[i].t = "if" THEN Balanced(tpl, i + 1, depth + 1)
  ELSE IF tpl[i].t = "end" THEN depth > 0 /\ Balanced(tpl, i + 1, depth - 1)
  ELSE Balanced(tpl, i + 1, depth)

\* the text of segments i.. ; open holds, for each enclosing {{#if}},
\* whether its condition held
RECURSIVE RenderFrom(_, _, _, _)
RenderFrom(tpl, i, ctx, open) ==
  IF i > Len(tpl) THEN <<>>
  ELSE LET seg == tpl[i]
           active == \A j \in 1..Len(open) : open[j]
       IN  CASE seg.t = "text" ->
                  (IF active THEN seg.v ELSE <<>>) \o RenderFrom(tpl, i + 1, ctx, open)
             [] seg.t = "var" ->
                  (IF active THEN Lookup(ctx, seg.v[1]) ELSE <<>>)
                    \o RenderFrom(tpl, i + 1, ctx, open)
             [] seg.t = "if" ->
                  RenderFrom(tpl, i + 1, ctx, Append(open, Truthy(ctx, seg.v[1])))
             [] seg.t = "end" ->
                  RenderFrom(tpl, i + 1, ctx, SubSeq(open, 1, Len(open) - 1))

\* the keys of the {{key}} placeholders of the template
VarKeys(tpl) == {tpl[i].v[1] : i \in {j \in 1..Len(tpl) : tpl[j].t = "var"}}

\* rendering that refuses a placeholder whose key the context lacks
RenderStrict(tpl, ctx) ==
  IF Balanced(tpl, 1, 0) /\ VarKeys(tpl) \subseteq DOMAIN ctx
  THEN [ok |-> TRUE, text |-> RenderFrom(tpl, 1, ctx, <<>>)]
  ELSE [ok |-> FALSE, text |-> <<>>]

\* Handlebars.compile(template, { noEscape: true })(templateData),
\* page-generator.js:92-93: throws on a template that does not parse
Render(tpl, ctx) ==
  IF Balanced(tpl, 1, 0)
  THEN [ok |-> TRUE, text |-> RenderFrom(tpl, 1, ctx, <<>>)]
  ELSE [ok |-> FALSE, text |-> <<>>]

\* ------------------------------------------------------- the environment
\* What a run finds around it: for each of the three template files whether
\* it is as shipped ("ok"), uses a key the generator does not provide
\* ("missingKey"), leaves a block open ("openBlock") or cannot be read
\* ("unreadable"); whether reading or writing routes.ts throws; whether
\* prettier fails.  With it goes the --store option the runs are given.
TemplateStates == {"ok", "missingKey", "openBlock", "unreadable"}

NoFault ==
  [ templates |-> [k \in 1..3 |-> "ok"],
    routesFail |-> FALSE,
    prettierFails |-> FALSE,
    hasStore |-> TRUE ]

\* the environments that differ from NoFault in one respect
Envs ==
  {NoFault}
    \cup {[NoFault EXCEPT !.templates[k] = st] :
            k \in 1..3, st \in TemplateStates \ {"ok"}}
    \cup {[NoFault EXCEPT !.routesFail = TRUE],
          [NoFault EXCEPT !.prettierFails = TRUE],
          [NoFault EXCEPT !.hasStore = FALSE]}

\* names the command line can also carry: none, and one with a character
\* outside [A-Za-z0-9]
BadNames == {<<>>, <<"a", "-", "B">>}

\* the names of the runs in a faulty environment: the bad ones and the
\* one-word ones without the suffix
EnvNames == BadNames \cup (Words \ {Page})

\* fs.readFileSync of templates/page/<k>.hbs, page-generator.js:88, 97, 106
TemplateFile(k, st) ==
  CASE st = "missingKey" -> WithMissingKey(TemplateOf(k))
    [] st = "openBlock" -> WithOpenBlock(TemplateOf(k))
    [] OTHER -> TemplateOf(k)

\* a file written by the generator, a file the formatter rewrote, a file
\* edited by hand
Raw(text) == [text |-> text, pretty |-> FALSE]
Prettier(c) == [c EXCEPT !.pretty = TRUE]
Edited == [text |-> <<"// edited by hand", NL>>, pretty |-> FALSE]

\* ----------------------------------------------------------------- state
VARIABLES
  routesExists,   \* fs.existsSync(routesPath)
  routesFile,     \* the text of src/routes.ts on disk
  routesExisted,  \* what the last updateRouting found: did the file exist
  routesContent,  \* ... and the text it read
  console,        \* what the last updateRouting logged
  written,        \* whether the last updateRouting wrote routes.ts
  request,        \* the base name of the last run
  ids,            \* the identifiers the last run derived
  dirs,           \* page directories on disk
  files,          \* artifact files on disk: path -> content
  runs,           \* number of runs so far
  env,            \* the environment of the last run
  context,        \* the template data of the last run
  outcome,        \* how the last run ended: "ok", "failed" (exit 1), "usage"
  wrote,          \* the artifact paths the last run wrote, in order
  replaced,       \* the artifacts the last run found on disk, as it found them
  produced,       \* the artifacts the last run left on disk, as it left them
  warned,         \* whether the last run warned that it could not format
  repeated,          \* whether the last run repeated the run before it
  count,          \* TestStore.count
  incs,           \* increment calls since construction or the last reset
  decs,           \* decrement calls since construction or the last reset
  lastCall,       \* the last TestStore method called
  calls           \* number of TestStore calls so far

VARIABLES
  argv,           \* the arguments after `generate page <name>`
  config,         \* what parseOptions returned
  handed,         \* the hasStore and hasService handed to generatePage
  pc,             \* each concurrent run's position in updateRouting
  buf,            \* what each concurrent run read of routes.ts and made of it
  apps,           \* application directories on disk: name -> content
  created,        \* the name, outcome and message of the last createApp
  creates,        \* number of createApp calls so far
  user,           \* AuthStore.user
  token,          \* AuthStore.token
  isLoading,      \* AuthStore.isLoading
  error,          \* AuthStore.error
  storage,        \* localStorage: authToken and authUser
  apiToken,       \* the token the API client sends
  pending,        \* the AuthStore calls awaiting their response
  started,        \* number of AuthStore calls so far
  settled,        \* the last AuthStore call that settled, and how
  loggedOut       \* a logout has settled and no later call has succeeded

cliVars == <<argv, config, handed>>

raceVars == <<pc, buf>>

appVars == <<apps, created, creates>>

authVars ==
  <<user, token, isLoading, error, storage, apiToken, pending, started,
    settled, loggedOut>>

otherVars == <<cliVars, raceVars, appVars, authVars>>

genVars ==
  <<routesExists, routesFile, routesExisted, routesContent, console, written,
    request, ids, dirs, files, runs, env, context, outcome, wrote, replaced,
    produced, warned, repeated>>

storeVars == <<count, incs, decs, lastCall, calls>>

vars == <<genVars, storeVars, otherVars>>

\* ------------------------------------------------- command-line options
\* number of arguments after `generate page <name>`
MaxArgs == 3

\* the words an argument list is made of
OptionTokens ==
  { <<"--", "store">>, <<"--", "service">>, <<"store">>,
    <<"true">>, <<"false">>, <<"yes">> }

\* args.slice(2) of cli/index.js:114
ArgLists == UNION {[1..n -> OptionTokens] : n \in 0..MaxArgs}

\* a JavaScript boolean and a JavaScript string, as option values
BoolValue(b) ==
  [type |-> "boolean", text |-> IF b THEN <<"true">> ELSE <<"false">>]
StringValue(text) == [type |-> "string", text |-> text]

\* config[key] = value
Put(cfg, key, value) ==
  [k \in DOMAIN cfg \cup {key} |-> IF k = key THEN value ELSE cfg[k]]

\* cli/index.js:225-228
Convert(value) ==
  IF value = <<"true">> THEN BoolValue(TRUE)
  ELSE IF value = <<"false">> THEN BoolValue(FALSE)
  ELSE StringValue(value)

\* the loop of cli/index.js:219-230 from index i (counted from 1)
RECURSIVE ParseFrom(_, _, _)
ParseFrom(args, i, cfg) ==
  IF i > Len(args) THEN cfg
  ELSE LET key == RemoveFirst(args[i], <<"--">>)
       IN  IF key # <<>> /\ i + 1 <= Len(args)
           THEN ParseFrom(args, i + 2, Put(cfg, key, Convert(args[i + 1])))
           ELSE ParseFrom(args, i + 2, cfg)

\* cli/index.js:216-232
ParseOptions(args, defaults) == ParseFrom(args, 1, defaults)

\* the defaults of `generate page`, cli/index.js:201-205
PageDefaults(name) ==
  Put(Put(Put(<<>>, <<"description">>, StringValue(DescriptionOf(name))),
          <<"store">>, BoolValue(TRUE)),
      <<"service">>, BoolValue(TRUE))

\* the name the options are parsed for
OptionsName == <<"a", "B">>

\* nothing handed to generatePage yet
NoHanded == [hasStore |-> StringValue(<<>>), hasService |-> StringValue(<<>>)]

IdleCli ==
  /\ argv = <<>>
  /\ config = <<>>
  /\ handed = NoHanded

\* AIFirstCLI.generatePage up to its call of generatePage,
\* cli/index.js:200-213
GeneratePageOptions ==
  /\ handed = NoHanded
  /\ config' = ParseOptions(argv, PageDefaults(OptionsName))
  /\ handed' = [hasStore |-> config'[<<"store">>],
                hasService |-> config'[<<"service">>]]
  /\ UNCHANGED <<argv, raceVars, appVars, authVars, genVars, storeVars>>

\* ----------------------------------------------------- concurrent runs
\* two runs of the generator at once, each its own process
Procs == {1, 2}

\* the pages the two runs can be for
RaceNames == {<<"a">>, <<"B">>, <<"a", "B">>}

\* nothing read yet
NoBuf == [name |-> <<>>, exists |-> FALSE, content |-> <<>>, output |-> <<>>]

IdleRace ==
  /\ pc = [p \in Procs |-> "idle"]
  /\ buf = [p \in Procs |-> NoBuf]

\* updateRouting of run p, for the page `name`, up to its read:
\* fs.existsSync and fs.readFileSync, page-generator.js:136-137
ReadRoutes(p, name) ==
  /\ pc[p] = "idle"
  /\ pc' = [pc EXCEPT ![p] = "read"]
  /\ buf' = [buf EXCEPT ![p] = [name |-> name,
                                 exists |-> routesExists,
                                 content |-> routesFile,
                                 output |-> <<>>]]
  /\ UNCHANGED <<genVars, storeVars, cliVars, appVars, authVars>>

\* updateRouting of run p from what it read on: the patch in memory and
\* fs.writeFileSync, page-generator.js:140-181
WriteRoutes(p) ==
  /\ pc[p] = "read"
  /\ LET d == Derive(buf[p].name)
         r == UpdateRouting(buf[p].exists, buf[p].content,
                            d.pageName, d.entityName, d.route)
     IN  /\ routesExists' = (routesExists \/ r.written)
         /\ routesFile' = IF r.written THEN r.file ELSE routesFile
         /\ buf' = [buf EXCEPT ![p].output = r.file]
  /\ pc' = [pc EXCEPT ![p] = "done"]
  /\ UNCHANGED <<routesExisted, routesContent, console, written, request,
                 ids, dirs, files, runs, env, context, outcome, wrote,
                 replaced, produced, warned, repeated>>
  /\ UNCHANGED <<storeVars, cliVars, appVars, authVars>>

\* ------------------------------------------------------------ createApp
\* number of createApp calls in one behaviour
MaxCreates == 3

\* the application names of the calls; the empty one is a call without a name
AppNames == {<<>>, <<"a">>, <<"b">>}

\* what can go wrong in a call: nothing, copying the template, npm install,
\* npm run format
CreateFaults == {"none", "copy", "install", "format"}

\* a directory that was there before any call
Foreign == "foreign"

\* the content of the application directory when createApp stops after
\* mkdir, after the copy, after npm install, after npm run format
ContentAfter(fault) ==
  CASE fault = "copy" -> "partial"
    [] fault = "install" -> "copied"
    [] fault = "format" -> "installed"
    [] OTHER -> "formatted"

\* `Directory ${appName} already exists`, cli/index.js:57
AlreadyExists(name) == <<"Directory ">> \o name \o <<" already exists">>

NoCreated == [name |-> <<>>, outcome |-> "", message |-> <<>>, found |-> ""]

IdleApp ==
  /\ apps = <<>>
  /\ created = NoCreated
  /\ creates = 0

\* createApp that goes on into a directory that exists
CreateAppOverwriting(name, fault) ==
  /\ creates < MaxCreates
  /\ creates' = creates + 1
  /\ apps' = Put(apps, name, ContentAfter(fault))
  /\ created' = [name |-> name,
                 outcome |-> IF fault = "none" THEN "ok" ELSE "failed",
                 message |-> IF fault = "none" THEN <<>> ELSE <<fault>>,
                 found |-> IF name \in DOMAIN apps THEN apps[name] ELSE ""]
  /\ UNCHANGED <<genVars, storeVars, cliVars, raceVars, authVars>>

\* `ai-first create-app <name>`: cli/index.js:27-42, 44-86
CreateApp(name, fault) ==
  /\ creates < MaxCreates
  /\ creates' = creates + 1
  /\ IF name = <<>>
     THEN /\ apps' = apps
          /\ created' = [name |-> name, outcome |-> "usage",
                         message |-> <<"App name is required">>,
                         found |-> ""]
     ELSE IF name \in DOMAIN apps
     THEN /\ apps' = apps
          /\ created' = [name |-> name, outcome |-> "failed",
                         message |-> AlreadyExists(name),
                         found |-> apps[name]]
     ELSE /\ apps' = Put(apps, name, ContentAfter(fault))
          /\ created' = [name |-> name,
                         outcome |-> IF fault = "none" THEN "ok" ELSE "failed",
                         message |-> IF fault = "none" THEN <<>> ELSE <<fault>>,
                         found |-> ""]
  /\ UNCHANGED <<genVars, storeVars, cliVars, raceVars, authVars>>

\* ------------------------------------------------------------ AuthStore
\* number of AuthStore calls in one behaviour
MaxRequests == 3

\* JavaScript null, and the value of a field that is not there
Null == "null"
Undefined == "undefined"

\* localStorage.getItem of a key that is not there (falsy, like '')
NoToken == ""
NoText == <<>>

\* JSON.stringify of a user, AuthStore.ts:112
Stringify(u) == IF u \in {Null, Undefined} THEN <<u>> ELSE <<"{", u, "}">>

\* JSON.parse of a stored text, AuthStore.ts:36: throws on text that is
\* not JSON
Parse(text) ==
  IF text = <<Null>> THEN [ok |-> TRUE, value |-> Null]
  ELSE IF Len(text) = 3 /\ text[1] = "{" /\ text[3] = "}"
  THEN [ok |-> TRUE, value |-> text[2]]
  ELSE [ok |-> FALSE, value |-> Null]

\* localStorage without the two keys
NoStorage == [authToken |-> NoToken, authUser |-> NoText]

\* what localStorage can hold when the application loads
StoredStates ==
  [ authToken : {NoToken, "t0"},
    authUser : {NoText, Stringify("u0"), <<Null>>, <<"garbage">>} ]

\* the token the server issues in answer to call id
ServerTokens == <<"t1", "t2", "t3", "t4", "t5">>

\* the answers of the server: AuthResponse with or without its user, or
\* an error with or without a message
Success(u, t) == [ok |-> TRUE, user |-> u, token |-> t, message |-> ""]
Failure(m) == [ok |-> FALSE, user |-> Null, token |-> Null, message |-> m]

Responses(id) ==
  {Success(u, ServerTokens[id]) : u \in {"u1", Undefined}}
    \cup {Failure(m) : m \in {"", "m"}}

\* AuthStore.clearAuth, AuthStore.ts:116-125
ClearAuth ==
  [ user |-> Null, token |-> Null, error |-> Null,
    storage |-> NoStorage, apiToken |-> Null ]

\* AuthStore.setAuthData, AuthStore.ts:106-114
SetAuthData(u, t, err) ==
  [ user |-> u, token |-> t, error |-> err,
    storage |-> [authToken |-> t, authUser |-> Stringify(u)],
    apiToken |-> t ]

\* the constructor and initializeAuth over localStorage st,
\* AuthStore.ts:10-21, 28-42
InitializeAuth(st) ==
  IF st.authToken # NoToken /\ st.authUser # NoText
  THEN IF Parse(st.authUser).ok
       THEN [ user |-> Parse(st.authUser).value, token |-> st.authToken,
              error |-> Null, storage |-> st, apiToken |-> st.authToken ]
       ELSE ClearAuth
  ELSE [ user |-> Null, token |-> Null, error |-> Null,
         storage |-> st, apiToken |-> Null ]

NoSettled ==
  [ n |-> 0, id |-> 0, kind |-> "", result |-> "", sent |-> FALSE,
    response |-> Failure("") ]

\* a new AuthStore over localStorage st
Constructed(st) ==
  /\ user = InitializeAuth(st).user
  /\ token = InitializeAuth(st).token
  /\ error = InitializeAuth(st).error
  /\ storage = InitializeAuth(st).storage
  /\ apiToken = InitializeAuth(st).apiToken
  /\ isLoading = FALSE
  /\ pending = {}
  /\ started = 0
  /\ settled = NoSettled
  /\ loggedOut = FALSE

IdleAuth == Constructed(NoStorage)

\* the store takes the fields of a
Becomes(a) ==
  /\ user' = a.user
  /\ token' = a.token
  /\ error' = a.error
  /\ storage' = a.storage
  /\ apiToken' = a.apiToken

\* the call id of kind settles with the response resp
Settles(id, kind, result, resp) ==
  settled' = [ n |-> settled.n + 1, id |-> id, kind |-> kind,
               result |-> result, sent |-> TRUE, response |-> resp ]

\* login and register up to their await, AuthStore.ts:46-50, 64-68
StartCredentials(kind) ==
  /\ started < MaxRequests
  /\ started' = started + 1
  /\ isLoading' = TRUE
  /\ error' = Null
  /\ pending' = pending \cup {[id |-> started + 1, kind |-> kind, stale |-> FALSE]}
  /\ UNCHANGED <<user, token, storage, apiToken, settled, loggedOut>>
  /\ UNCHANGED <<genVars, storeVars, cliVars, raceVars, appVars>>

\* AuthStore.ts:44-50
LoginStart == StartCredentials("login")

\* AuthStore.ts:62-68
RegisterStart == StartCredentials("register")

\* logout up to its await, AuthStore.ts:81-83; also the 'auth:logout'
\* listener of AuthProvider.tsx:20-24
LogoutStart ==
  /\ started < MaxRequests
  /\ started' = started + 1
  /\ pending' = pending \cup {[id |-> started + 1, kind |-> "logout", stale |-> FALSE]}
  /\ UNCHANGED <<user, token, isLoading, error, storage, apiToken, settled,
                 loggedOut>>
  /\ UNCHANGED <<genVars, storeVars, cliVars, raceVars, appVars>>

\* refreshToken up to its await, AuthStore.ts:92-96
RefreshStart ==
  /\ started < MaxRequests
  /\ started' = started + 1
  /\ IF token = Null
     THEN /\ pending' = pending
          /\ settled' = [ n |-> settled.n + 1, id |-> started + 1,
                          kind |-> "refresh", result |-> "resolved",
                          sent |-> FALSE, response |-> Failure("") ]
     ELSE /\ pending' = pending \cup {[id |-> started + 1, kind |-> "refresh", stale |-> FALSE]}
          /\ settled' = settled
  /\ UNCHANGED <<user, token, isLoading, error, storage, apiToken, loggedOut>>
  /\ UNCHANGED <<genVars, storeVars, cliVars, raceVars, appVars>>

\* 'Login failed' and 'Registration failed', AuthStore.ts:55, 73
FallbackMessage(kind) ==
  IF kind = "login" THEN "Login failed" ELSE "Registration failed"

\* login and register that sign the user out when the request fails
FinishCredentialsClearing(req, resp) ==
  /\ req.kind \in {"login", "register"}
  /\ pending' = pending \ {req}
  /\ isLoading' = FALSE
  /\ IF resp.ok
     THEN /\ Becomes(SetAuthData(resp.user, resp.token, error))
          /\ Settles(req.id, req.kind, "resolved", resp)
          /\ loggedOut' = (loggedOut /\ req.stale)
     ELSE /\ Becomes([ClearAuth EXCEPT
                        !.error = IF resp.message # "" THEN resp.message
                                  ELSE FallbackMessage(req.kind)])
          /\ Settles(req.id, req.kind, "rejected", resp)
          /\ loggedOut' = loggedOut
  /\ UNCHANGED started
  /\ UNCHANGED <<genVars, storeVars, cliVars, raceVars, appVars>>

\* login and register from their await on, AuthStore.ts:50-59, 68-77
FinishCredentials(req, resp) ==
  /\ req.kind \in {"login", "register"}
  /\ pending' = pending \ {req}
  /\ isLoading' = FALSE
  /\ IF resp.ok
     THEN /\ Becomes(SetAuthData(resp.user, resp.token, error))
          /\ Settles(req.id, req.kind, "resolved", resp)
          /\ loggedOut' = (loggedOut /\ req.stale)
     ELSE /\ error' = IF resp.message # "" THEN resp.message
                      ELSE FallbackMessage(req.kind)
          /\ Settles(req.id, req.kind, "rejected", resp)
          /\ UNCHANGED <<user, token, storage, apiToken, loggedOut>>
  /\ UNCHANGED started
  /\ UNCHANGED <<genVars, storeVars, cliVars, raceVars, appVars>>

\* logout that lets the failure of its request out
FinishLogoutRejecting(req, resp) ==
  /\ req.kind = "logout"
  /\ pending' = {[q EXCEPT !.stale = TRUE] : q \in pending \ {req}}
  /\ Becomes(ClearAuth)
  /\ Settles(req.id, req.kind, IF resp.ok THEN "resolved" ELSE "rejected", resp)
  /\ loggedOut' = TRUE
  /\ UNCHANGED <<isLoading, started>>
  /\ UNCHANGED <<genVars, storeVars, cliVars, raceVars, appVars>>

\* logout from its await on, AuthStore.ts:83-88
FinishLogout(req, resp) ==
  /\ req.kind = "logout"
  /\ pending' = {[q EXCEPT !.stale = TRUE] : q \in pending \ {req}}
  /\ Becomes(ClearAuth)
  /\ Settles(req.id, req.kind, "resolved", resp)
  /\ loggedOut' = TRUE
  /\ UNCHANGED <<isLoading, started>>
  /\ UNCHANGED <<genVars, storeVars, cliVars, raceVars, appVars>>

\* refreshToken that leaves the store alone when its request fails
FinishRefreshKeeping(req, resp) ==
  /\ req.kind = "refresh"
  /\ pending' = pending \ {req}
  /\ IF resp.ok
     THEN /\ Becomes(SetAuthData(resp.user, resp.token, error))
          /\ Settles(req.id, req.kind, "resolved", resp)
          /\ loggedOut' = (loggedOut /\ req.stale)
     ELSE /\ UNCHANGED <<user, token, error, storage, apiToken>>
          /\ Settles(req.id, req.kind, "rejected", resp)
          /\ loggedOut' = loggedOut
  /\ UNCHANGED <<isLoading, started>>
  /\ UNCHANGED <<genVars, storeVars, cliVars, raceVars, appVars>>

\* refreshToken from its await on, AuthStore.ts:96-103
FinishRefresh(req, resp) ==
  /\ req.kind = "refresh"
  /\ pending' = pending \ {req}
  /\ IF resp.ok
     THEN /\ Becomes(SetAuthData(resp.user, resp.token, error))
          /\ Settles(req.id, req.kind, "resolved", resp)
          /\ loggedOut' = (loggedOut /\ req.stale)
     ELSE /\ Becomes(ClearAuth)
          /\ Settles(req.id, req.kind, "rejected", resp)
          /\ loggedOut' = loggedOut
  /\ UNCHANGED <<isLoading, started>>
  /\ UNCHANGED <<genVars, storeVars, cliVars, raceVars, appVars>>

\* AuthStore.ts:127-130
ClearError ==
  /\ error # Null
  /\ error' = Null
  /\ UNCHANGED <<user, token, isLoading, storage, apiToken, pending, started,
                 settled, loggedOut>>
  /\ UNCHANGED <<genVars, storeVars, cliVars, raceVars, appVars>>


NoIds ==
  [ pageName |-> <<>>, entityName |-> <<>>, kebabName |-> <<>>,
    pageTitle |-> <<>>, pageDir |-> <<>>, route |-> <<>> ]

\* TestStore: `count = 0` and the constructor, unnamed/part_002:8-12
InitStore ==
  /\ count = 0
  /\ incs = 0
  /\ decs = 0
  /\ lastCall = "new"
  /\ calls = 0

\* generatePage: nothing has run yet
InitGen ==
  /\ routesExisted = FALSE
  /\ routesContent = <<>>
  /\ console = ""
  /\ written = FALSE
  /\ request = <<>>
  /\ ids = NoIds
  /\ dirs = {}
  /\ files = <<>>
  /\ runs = 0
  /\ context = NoTemplateData
  /\ outcome = ""
  /\ wrote = <<>>
  /\ replaced = <<>>
  /\ produced = <<>>
  /\ warned = FALSE
  /\ repeated = FALSE

InitRest ==
  /\ InitGen
  /\ InitStore
  /\ IdleCli
  /\ IdleRace
  /\ IdleApp
  /\ IdleAuth

\* a project whose src/routes.ts is absent, or present with any text
Init ==
  /\ routesExists \in BOOLEAN
  /\ routesFile \in (IF routesExists THEN InitDocs ELSE {<<>>})
  /\ env = NoFault
  /\ InitRest

\* a project without src/routes.ts
InitFresh ==
  /\ routesExists = FALSE
  /\ routesFile = <<>>
  /\ env = NoFault
  /\ InitRest

\* a project without src/routes.ts, in any environment
InitEnv ==
  /\ routesExists = FALSE
  /\ routesFile = <<>>
  /\ env \in Envs
  /\ InitRest

\* page-generator.js:94, 103, 112: the path of artifact k
ArtifactPath(d, k) ==
  CASE k = 1 -> d.pageDir \o <<"/">> \o d.pageName \o <<".tsx">>
    [] k = 2 -> d.pageDir \o <<"/">> \o d.pageName \o <<".test.tsx">>
    [] k = 3 -> d.pageDir \o <<"/", "index.ts">>

\* page-generator.js:94, 103, 112
ArtifactsOf(d) ==
  { d.pageDir \o <<"/">> \o d.pageName \o <<".tsx">>,
    d.pageDir \o <<"/">> \o d.pageName \o <<".test.tsx">>,
    d.pageDir \o <<"/", "index.ts">> }

\* the function f restricted to the set S
Restrict(f, S) == [p \in S |-> f[p]]

\* the file p lies under the directory dir: the glob "${pageDir}/**/*.{ts,tsx}"
\* of page-generator.js:126
UnderDir(p, dir) ==
  /\ OccursAt(p, dir, 1)
  /\ Len(p) > Len(dir)
  /\ Len(dir) = 1 \/ p[Len(dir) + 1] = "/"

\* artifact k is read and rendered: page-generator.js:88-93, 97-102, 106-111
Rendering(k, e, data) == Render(TemplateFile(k, e.templates[k]), data)

\* page-generator.js:88-112: a step that throws ends the run
StepFails(k, e, data) ==
  e.templates[k] = "unreadable" \/ ~Rendering(k, e, data).ok

\* a generator that skips a failing artifact and goes on
StepsDoneSkipping(e, data) == 3

\* the number of artifacts written before the first step that throws
StepsDone(e, data) ==
  IF StepFails(1, e, data) THEN 0
  ELSE IF StepFails(2, e, data) THEN 1
  ELSE IF StepFails(3, e, data) THEN 2
  ELSE 3

\* fs.writeFileSync that leaves a file that exists alone
WriteArtifactsKeeping(fs, d, e, data, n) ==
  [p \in DOMAIN fs \cup {ArtifactPath(d, k) : k \in 1..n} |->
     IF p \in DOMAIN fs THEN fs[p]
     ELSE LET k == CHOOSE k \in 1..n : ArtifactPath(d, k) = p
          IN  Raw(Rendering(k, e, data).text)]

\* fs.writeFileSync of the first n artifacts, page-generator.js:94, 103, 112
WriteArtifacts(fs, d, e, data, n) ==
  [p \in DOMAIN fs \cup {ArtifactPath(d, k) : k \in 1..n} |->
     IF \E k \in 1..n : ArtifactPath(d, k) = p
     THEN LET k == CHOOSE k \in 1..n : ArtifactPath(d, k) = p
          IN  Raw(Rendering(k, e, data).text)
     ELSE fs[p]]

\* prettier whose failure is not caught
FormatThrowing(fs, d, e) ==
  IF e.prettierFails
  THEN [files |-> fs, warned |-> FALSE, thrown |-> TRUE]
  ELSE [files |-> [p \in DOMAIN fs |->
                     IF UnderDir(p, d.pageDir) THEN Prettier(fs[p]) ELSE fs[p]],
        warned |-> FALSE, thrown |-> FALSE]

\* page-generator.js:124-130
Format(fs, d, e) ==
  IF e.prettierFails
  THEN [files |-> fs, warned |-> TRUE, thrown |-> FALSE]
  ELSE [files |-> [p \in DOMAIN fs |->
                     IF UnderDir(p, d.pageDir) THEN Prettier(fs[p]) ELSE fs[p]],
        warned |-> FALSE, thrown |-> FALSE]

\* `ai-first generate page <name>` without a name: cli/index.js:92-97
Usage(name) ==
  /\ request' = name
  /\ outcome' = "usage"
  /\ runs' = runs + 1
  /\ wrote' = <<>>
  /\ replaced' = <<>>
  /\ produced' = <<>>
  /\ warned' = FALSE
  /\ repeated' = FALSE
  /\ console' = ""
  /\ written' = FALSE
  /\ UNCHANGED <<routesExists, routesFile, routesExisted, routesContent, ids,
                 dirs, files, context, env>>

\* `ai-first generate page <name>` in the environment e:
\* cli/index.js:27-42, 88-119, 200-214, then page-generator.js:11-131
GeneratePage(name, e) ==
  /\ runs < MaxRuns
  /\ IF name = <<>>
     THEN Usage(name)
     ELSE
       LET d == Derive(name)
           data == TemplateData(name, e.hasStore, TRUE)
           n == StepsDone(e, data)
           artifacts == {ArtifactPath(d, k) : k \in 1..n}
           writtenFiles == WriteArtifacts(files, d, e, data, n)
           routed == n = 3 /\ ~e.routesFail
           r == IF routed
                THEN UpdateRouting(routesExists, routesFile,
                                   d.pageName, d.entityName, d.route)
                ELSE [exists |-> routesExists, file |-> routesFile,
                      console |-> "", written |-> FALSE]
           f == IF routed
                THEN Format(writtenFiles, d, e)
                ELSE [files |-> writtenFiles, warned |-> FALSE, thrown |-> FALSE]
       IN  /\ request' = name
           /\ ids' = d
           /\ env' = e
           /\ context' = data
           /\ dirs' = dirs \cup {d.pageDir}
           /\ wrote' = [k \in 1..n |-> ArtifactPath(d, k)]
           /\ replaced' = Restrict(files, artifacts \cap DOMAIN files)
           /\ files' = f.files
           /\ produced' = Restrict(f.files, artifacts)
           /\ warned' = f.warned
           /\ routesExisted' = routesExists
           /\ routesContent' = routesFile
           /\ routesExists' = r.exists
           /\ routesFile' = r.file
           /\ console' = r.console
           /\ written' = r.written
           /\ outcome' = IF routed /\ ~f.thrown THEN "ok" ELSE "failed"
           /\ repeated' = (outcome = "ok" /\ request = name /\ env = e)
           /\ runs' = runs + 1
  /\ UNCHANGED <<storeVars, otherVars>>

\* a developer edits an artifact file of the last run
HandEdit(p) ==
  /\ p \in DOMAIN produced
  /\ \A q \in DOMAIN files : files[q] # Edited
  /\ files' = [files EXCEPT ![p] = Edited]
  /\ UNCHANGED <<routesExists, routesFile, routesExisted, routesContent,
                 console, written, request, ids, dirs, runs, env, context,
                 outcome, wrote, replaced, produced, warned, repeated>>
  /\ UNCHANGED <<storeVars, otherVars>>

\* ------------------------------------------------------------- TestStore
\* number of TestStore calls in one behaviour
MaxCalls == 8

\* decrement that adds
DecrementAdding ==
  /\ calls < MaxCalls
  /\ count' = count + 1
  /\ decs' = decs + 1
  /\ lastCall' = "decrement"
  /\ calls' = calls + 1
  /\ UNCHANGED <<incs, genVars, otherVars>>

\* unnamed/part_002:14-17
Increment ==
  /\ calls < MaxCalls
  /\ count' = count + 1
  /\ incs' = incs + 1
  /\ lastCall' = "increment"
  /\ calls' = calls + 1
  /\ UNCHANGED <<decs, genVars, otherVars>>

\* unnamed/part_002:19-22
Decrement ==
  /\ calls < MaxCalls
  /\ count' = count - 1
  /\ decs' = decs + 1
  /\ lastCall' = "decrement"
  /\ calls' = calls + 1
  /\ UNCHANGED <<incs, genVars, otherVars>>

\* unnamed/part_002:24-27
Reset ==
  /\ calls < MaxCalls
  /\ count' = 0
  /\ incs' = 0
  /\ decs' = 0
  /\ lastCall' = "reset"
  /\ calls' = calls + 1
  /\ UNCHANGED <<genVars, otherVars>>

\* ------------------------------------------------------- specifications
\* runs in an environment without faults
Next == \E name \in Names : GeneratePage(name, NoFault)

Spec == Init /\ [][Next]_vars

SpecFresh == InitFresh /\ [][Next]_vars

\* runs with any name in the environment the project is in, and edits by
\* hand between them
NextEnv ==
  \/ \E name \in EnvNames : GeneratePage(name, env)
  \/ \E p \in DOMAIN files : HandEdit(p)

SpecEnv == InitEnv /\ [][NextEnv]_vars

\* calls of one TestStore
NextStore == Increment \/ Decrement \/ Reset

SpecStore == InitFresh /\ [][NextStore]_vars

\* one argument list parsed for `generate page`
InitCli ==
  /\ routesExists = FALSE
  /\ routesFile = <<>>
  /\ env = NoFault
  /\ InitGen /\ InitStore /\ IdleRace /\ IdleApp /\ IdleAuth
  /\ argv \in ArgLists
  /\ config = <<>>
  /\ handed = NoHanded

NextCli == GeneratePageOptions

SpecCli == InitCli /\ [][NextCli]_vars

\* routes.ts with both anchors, with one of them, and empty
RaceDocs ==
  { HomeImportLine \o ArrayOpenLine \o ArrayCloseLine,
    ArrayOpenLine \o ArrayCloseLine,
    HomeImportLine,
    <<>> }

\* two runs at once over a routes.ts that is absent or has one of these
\* texts
InitRace ==
  /\ routesExists \in BOOLEAN
  /\ routesFile \in (IF routesExists THEN RaceDocs ELSE {<<>>})
  /\ env = NoFault
  /\ InitGen /\ InitStore /\ IdleCli /\ IdleRace /\ IdleApp /\ IdleAuth

NextRace ==
  \E p \in Procs :
    \/ \E name \in RaceNames : ReadRoutes(p, name)
    \/ WriteRoutes(p)

SpecRace == InitRace /\ [][NextRace]_vars

\* createApp calls in a directory that holds nothing or a directory `a`
InitApp ==
  /\ routesExists = FALSE
  /\ routesFile = <<>>
  /\ env = NoFault
  /\ InitGen /\ InitStore /\ IdleCli /\ IdleRace /\ IdleAuth
  /\ apps \in {<<>>, Put(<<>>, <<"a">>, Foreign)}
  /\ created = NoCreated
  /\ creates = 0

NextApp == \E name \in AppNames, fault \in CreateFaults : CreateApp(name, fault)

SpecApp == InitApp /\ [][NextApp]_vars

\* an AuthStore constructed over any localStorage
InitAuth ==
  /\ routesExists = FALSE
  /\ routesFile = <<>>
  /\ env = NoFault
  /\ InitGen /\ InitStore /\ IdleCli /\ IdleRace /\ IdleApp
  /\ \E st \in StoredStates : Constructed(st)

NextAuth ==
  \/ LoginStart
  \/ RegisterStart
  \/ LogoutStart
  \/ RefreshStart
  \/ \E req \in pending :
       \E resp \in Responses(req.id) :
         \/ FinishCredentials(req, resp)
         \/ FinishLogout(req, resp)
         \/ FinishRefresh(req, resp)
  \/ ClearError

SpecAuth == InitAuth /\ [][NextAuth]_vars

\* ================================================================ claims
\* number of chunks c in s
CountChunk(s, c) == Cardinality({i \in 1..Len(s) : s[i] = c})

\* number of lines of s, from position i on, that are imports from '@pages'
RECURSIVE CountPagesImports(_, _)
CountPagesImports(s, i) ==
  LET e == LineEnd(s, i)
  IN  IF i > Len(s) \/ e = 0 THEN 0
      ELSE (IF MatchesPagesImport(SubSeq(s, i, e)) THEN 1 ELSE 0)
             + CountPagesImports(s, e + 1)

\* position of the line feed that ends the last import from '@pages' of s,
\* looked for from position i on (best so far)
RECURSIVE LastPagesImportEnd(_, _, _)
LastPagesImportEnd(s, i, best) ==
  LET e == LineEnd(s, i)
  IN  IF i > Len(s) \/ e = 0 THEN best
      ELSE LastPagesImportEnd(s, e + 1,
             IF MatchesPagesImport(SubSeq(s, i, e)) THEN e ELSE best)

\* s with the text t put in after position p
InsertAfter(s, p, t) == SubSeq(s, 1, p) \o t \o SubSeq(s, p + 1, Len(s))

\* the entry of the last run
LastImport == ImportStatement(ids.pageName, ids.entityName)
LastConfig == RouteConfig(ids.pageName, ids.route)
LastPath == PathToken(ids.route)

\* the last run found routes.ts and no entry for its route in it
PatchedExisting == runs > 0 /\ routesExisted /\ ~Includes(routesContent, LastPath)

\* C1: running updateRouting a second time with the entry of the run just
\* made leaves routes.ts textually as the first run left it, whatever
\* routes.ts was before (absent, or any text).
C1_PatchIdempotent ==
  runs > 0 =>
    LET again == UpdateRouting(routesExists, routesFile,
                               ids.pageName, ids.entityName, ids.route)
    IN  again.exists /\ again.file = routesFile

\* the last run changed a routes.ts that existed
C1_Witness == PatchedExisting /\ written /\ routesFile # routesContent

\* C2 as stated: an absent routes.ts is created with exactly ONE import
\* line, one routes array and one entry.
C2_OneImportLine ==
  (runs > 0 /\ ~routesExisted) =>
    /\ CountChunk(routesFile, "import ") = 1
    /\ CountChunk(routesFile, "const routes") = 1
    /\ CountChunk(routesFile, "path: ") = 1

\* C2 amended: an absent routes.ts is created, in one write, with the React
\* import as its first line, exactly one import from '@pages' (the new
\* page's) and one routes array holding exactly one entry, the new page's
\* route.
C2_CreatedDocument ==
  (runs > 0 /\ ~routesExisted) =>
    /\ routesExists /\ written /\ console = "created"
    /\ CountChunk(routesFile, "import ") = 2
    /\ IndexOf(routesFile, ReactImportLine) = 1
    /\ CountChunk(routesFile, "@pages/") = 1
    /\ CountPagesImports(routesFile, 1) = 1
    /\ Includes(routesFile, LastImport \o <<NL>>)
    /\ CountChunk(routesFile, "const routes") = 1
    /\ CountChunk(routesFile, "[") = 1
    /\ CountChunk(routesFile, "path: ") = 1
    /\ Includes(routesFile, <<"[", NL>> \o LastConfig \o <<NL, "];">>)
    /\ Includes(routesFile, LastPath)

\* the last run created routes.ts
C2_Witness == runs > 0 /\ ~routesExisted /\ routesExists /\ console = "created"

\* C3: when routes.ts exists and holds the path token of the entry, the
\* run leaves its text as it was, writes nothing and reports that the route
\* already exists.
C3_ExistingRouteUntouched ==
  (runs > 0 /\ routesExisted /\ Includes(routesContent, LastPath)) =>
    /\ routesFile = routesContent
    /\ ~written
    /\ console = "already exists"
    /\ ~Includes(routesContent, LastImport) => ~Includes(routesFile, LastImport)

\* the last run found its route in a routes.ts that lacked its import
C3_Witness ==
  /\ runs > 0 /\ routesExisted
  /\ Includes(routesContent, LastPath)
  /\ ~Includes(routesContent, LastImport)

\* C4: with one or more imports from '@pages' in routes.ts and the entry
\* missing, the import statement goes in once, right after the last of them.
C4_ImportAfterLastPagesImport ==
  (/\ PatchedExisting
   /\ ~Includes(routesContent, LastImport)
   /\ CountPagesImports(routesContent, 1) >= 1) =>
    RemoveFirst(routesFile, <<NL>> \o LastConfig)
      = InsertAfter(routesContent, LastPagesImportEnd(routesContent, 1, 0),
                    LastImport \o <<NL>>)

\* C5: with no import from '@pages' but another import line in routes.ts,
\* the import statement goes in right after the first import line.
C5_ImportAfterFirstImport ==
  (/\ PatchedExisting
   /\ ~Includes(routesContent, LastImport)
   /\ CountPagesImports(routesContent, 1) = 0
   /\ IndexOf(routesContent, <<"import ">>) # 0
   /\ LineEnd(routesContent, IndexOf(routesContent, <<"import ">>)) # 0) =>
    RemoveFirst(routesFile, <<NL>> \o LastConfig)
      = InsertAfter(routesContent,
                    LineEnd(routesContent, IndexOf(routesContent, <<"import ">>)),
                    LastImport \o <<NL>>)

\* C6: with a routes array in routes.ts and the path token missing, the
\* registration block goes in right after the opening bracket, also when
\* the import of the page is there already.
C6_RouteRegistered ==
  (PatchedExisting /\ RoutesArrayEnd(routesContent, 1) # 0) =>
    /\ Includes(routesFile, LastPath)
    /\ Includes(routesFile, <<"[", NL>> \o LastConfig)

\* C7: with an anchor missing from routes.ts, the run reports a patch
\* error of its own, writes nothing and does not report the route as added.
C7_PatchErrorReported ==
  (/\ PatchedExisting
   /\ \/ CountPagesImports(routesContent, 1) = 0
      \/ RoutesArrayEnd(routesContent, 1) = 0) =>
    /\ ~written
    /\ routesFile = routesContent
    /\ console \notin {"added", "created", "already exists", ""}

\* the routes of the pages generated so far
RoutesGenerated == {<<"/">> \o ToLowerCase(Tail(d)) : d \in dirs}

\* C8: starting without routes.ts, after any runs the number of imports
\* from '@pages', the number of route entries and the number of distinct
\* routes generated are the same.
C8_NoDuplicates ==
  runs > 0 =>
    /\ CountChunk(routesFile, "@pages/") = Cardinality(RoutesGenerated)
    /\ CountChunk(routesFile, "path: ") = Cardinality(RoutesGenerated)

\* C9: the text written over an existing routes.ts (here one that has both
\* anchors) is the text read with the import line and the registration
\* block put in, once each, and nothing else changed.
C9_OnlyInsertions ==
  (/\ runs > 0 /\ routesExisted /\ written
   /\ CountPagesImports(routesContent, 1) >= 1
   /\ RoutesArrayEnd(routesContent, 1) # 0) =>
    /\ Len(routesFile)
         = Len(routesContent) + Len(LastImport) + 1 + Len(LastConfig) + 1
    /\ RemoveFirst(RemoveFirst(routesFile, LastImport \o <<NL>>),
                   <<NL>> \o LastConfig) = routesContent

\* C10: a base name X without the suffix and X + 'Page' derive the same
\* identifiers on every field.
C10_SuffixNormalized ==
  (runs > 0 /\ ~EndsWith(request, Page)) => ids = Derive(request \o Page)

\* C11: the pascal-case artifact name derived from a valid base name, one
\* that starts with a lowercase letter included, starts with an uppercase
\* letter.
C11_PageNameStartsUpper ==
  runs > 0 => (ids.pageName # <<>> /\ ids.pageName[1] \in UpperCase)

\* the characters of a kebab name
KebabChars == LowerCase \cup {"-"}

\* C12: for every base name the generator accepts, kebabName is the entity
\* name hyphenated at each lowercase-to-uppercase boundary and lowercased,
\* has no uppercase letter and no two hyphens in a row, and matches
\* [a-z0-9]+(-[a-z0-9]+)*, so it is not empty.
C12_KebabNameWellFormed ==
  runs > 0 =>
    LET kebab == ids.kebabName
    IN  /\ kebab = ToLowerCase(ReplaceBoundary(ids.entityName, 1, "-"))
        /\ \A i \in 1..Len(kebab) : kebab[i] \in KebabChars
        /\ ~Includes(kebab, <<"-", "-">>)
        /\ kebab # <<>>
        /\ kebab[1] # "-"
        /\ kebab[Len(kebab)] # "-"

\* the step is a run of the generator
IsRun == runs' = runs + 1

\* C13: a run whose base name is empty or has a character outside
\* [A-Za-z0-9] is rejected before anything is written: no directory, no
\* artifact file, routes.ts as it was.
C13_BadNameRejected ==
  [][(IsRun /\ request' \in BadNames) =>
       /\ outcome' \in {"usage", "invalid name"}
       /\ dirs' = dirs
       /\ files' = files
       /\ routesExists' = routesExists
       /\ routesFile' = routesFile]_vars

\* the names of a list of records
NamesOf(list) == [i \in 1..Len(list) |-> list[i].name]

\* C14: the template data built with hasStore = true has hasLoading,
\* hasError and hasActions set, one action whose text is 'Add E', and mock
\* store data whose action names are fetchEList, createE, updateE, deleteE
\* in that order.
C14_TemplateContext ==
  (runs > 0 /\ context.hasStore) =>
    LET E == context.entityName
    IN  /\ context.hasLoading /\ context.hasError /\ context.hasActions
        /\ Len(context.actions) = 1
        /\ context.actions[1].text = <<"Add ">> \o E
        /\ Len(context.mockStoreData) = 1
        /\ NamesOf(context.mockStoreData[1].actions)
             = << <<"fetch">> \o E \o <<"List">>, <<"create">> \o E,
                  <<"update">> \o E, <<"delete">> \o E >>

\* the last run built the template data of an entity with a store
C14_Witness ==
  /\ runs > 0 /\ context.hasStore
  /\ Len(context.entityName) > 1

\* the last run was a run of the generator proper
Generated == runs > 0 /\ request # <<>>

\* the templates up to artifact k can be read and parse
ParsesUpTo(k) == \A j \in 1..k : env.templates[j] \in {"ok", "missingKey"}

FirstFailing(k) ==
  /\ env.templates[k] \in {"unreadable", "openBlock"}
  /\ ParsesUpTo(k - 1)

\* C16: the artifacts are written in the order Page, Page.test, index;
\* when reading or rendering artifact k fails the run fails with the
\* artifacts before k on disk, those from k on not written and routes.ts
\* as it was.
C16_AbortKeepsEarlierArtifacts ==
  Generated =>
    /\ \A i \in 1..Len(wrote) : wrote[i] = ArtifactPath(ids, i)
    /\ \A k \in 1..3 :
         FirstFailing(k) =>
           /\ outcome = "failed"
           /\ Len(wrote) = k - 1
           /\ DOMAIN produced = {ArtifactPath(ids, i) : i \in 1..(k - 1)}
           /\ \A i \in 1..(k - 1) :
                /\ ArtifactPath(ids, i) \in DOMAIN files
                /\ produced[ArtifactPath(ids, i)]
                     = Raw(RenderFrom(TemplateOf(i), 1, context, <<>>))
           /\ \A i \in k..3 : ArtifactPath(ids, i) \notin DOMAIN files
           /\ ~written
           /\ routesExists = routesExisted
           /\ routesFile = routesContent

\* the last run failed at its second artifact
C16_Witness ==
  /\ Generated
  /\ FirstFailing(2)
  /\ Len(wrote) = 1
  /\ wrote[1] \in DOMAIN files

\* C17: when updateRouting throws, the three artifact files stay on disk
\* and the run is not failed by it.
C17_PatchFailureIsolated ==
  (Generated /\ env.routesFail) =>
    /\ Len(wrote) = 3
    /\ \A i \in 1..3 : ArtifactPath(ids, i) \in DOMAIN files
    /\ outcome = "ok"

\* C18: when prettier fails the run warns and still succeeds, with the
\* three artifacts written and the route in routes.ts.
C18_FormatterFailureIsSoft ==
  (Generated /\ env.prettierFails) =>
    /\ outcome = "ok"
    /\ warned
    /\ Len(wrote) = 3
    /\ DOMAIN produced = ArtifactsOf(ids)
    /\ \A p \in DOMAIN produced : ~produced[p].pretty
    /\ routesExists
    /\ Includes(routesFile, PathToken(ids.route))
    /\ Includes(routesFile, ImportStatement(ids.pageName, ids.entityName))

\* the last run went on after prettier failed
C18_Witness ==
  /\ Generated /\ env.prettierFails
  /\ warned
  /\ written

\* C19: a run that repeats the successful run before it succeeds, writes
\* all three artifacts over whatever is there, and leaves the artifact
\* files, the page directories and routes.ts as the first run left them.
C19_RegenerationIdempotent ==
  [][(IsRun /\ request' = request /\ request # <<>> /\ outcome = "ok") =>
       /\ outcome' = "ok"
       /\ Len(wrote') = 3
       /\ replaced' = Restrict(files, DOMAIN produced)
       /\ produced' = produced
       /\ \A p \in DOMAIN produced : files'[p] = produced[p]
       /\ DOMAIN files' = DOMAIN files
       /\ dirs' = dirs
       /\ routesExists' = routesExists
       /\ routesFile' = routesFile]_vars

\* the last run repeated a successful run and wrote over a hand edit
C19_Witness ==
  /\ repeated
  /\ outcome = "ok"
  /\ \E p \in DOMAIN replaced : replaced[p] = Edited /\ files[p] # Edited

\* C20: count is 0 after construction and after reset, and otherwise the
\* number of increments less the number of decrements since then; it can
\* be negative.
C20_CountIsNetOfCalls ==
  /\ count = incs - decs
  /\ lastCall \in {"new", "reset"} => (count = 0 /\ incs = 0 /\ decs = 0)
  /\ calls = 0 => lastCall = "new"

\* count is negative after a reset and further calls
C20_Witness ==
  /\ count < 0
  /\ lastCall = "decrement"
  /\ calls > incs + decs

\* the text after the first `flag` of the argument list, <<>> when there
\* is no such text
RECURSIVE TextAfter(_, _, _)
TextAfter(args, flag, i) ==
  IF i >= Len(args) THEN <<>>
  ELSE IF args[i] = flag THEN args[i + 1]
  ELSE TextAfter(args, flag, i + 1)

\* the flag as the claim has it: true without a text after the option,
\* otherwise the boolean the text spells
FlagClaimed(args, flag, value) ==
  /\ value.type = "boolean"
  /\ TextAfter(args, flag, 1) = <<>> => value = BoolValue(TRUE)
  /\ TextAfter(args, flag, 1) = <<"true">> => value = BoolValue(TRUE)
  /\ TextAfter(args, flag, 1) = <<"false">> => value = BoolValue(FALSE)

\* C21: for every argument list of `generate page`, hasStore and
\* hasService are booleans: true when the option is absent or has no
\* value, otherwise the boolean parsed from the text after the option.
C21_FlagsAreBooleans ==
  handed # NoHanded =>
    /\ FlagClaimed(argv, <<"--", "store">>, handed.hasStore)
    /\ FlagClaimed(argv, <<"--", "service">>, handed.hasService)

\* the path token of the page of run p
RacePath(p) == PathToken(Derive(buf[p].name).route)

\* C22: when two runs for different pages interleave their read and write
\* of routes.ts and each writes a document that registers its page, the
\* final document registers both pages.
C22_NoLostUpdate ==
  (/\ buf[1].name # buf[2].name
   /\ \A p \in Procs :
        pc[p] = "done" /\ Includes(buf[p].output, RacePath(p))) =>
    \A p \in Procs : Includes(routesFile, RacePath(p))

\* the step is a call of createApp
IsCreate == creates' = creates + 1

\* C23: createApp leaves every directory that exists as it is; a call for
\* a name whose directory exists fails with 'Directory <name> already
\* exists', also when an earlier call that failed left the directory.
C23_ExistingDirectoryUntouched ==
  [][IsCreate =>
       /\ \A n \in DOMAIN apps : n \in DOMAIN apps' /\ apps'[n] = apps[n]
       /\ created'.name \in DOMAIN apps =>
            /\ apps' = apps
            /\ created'.outcome = "failed"
            /\ created'.message
                 = <<"Directory ">> \o created'.name \o <<" already exists">>]_vars

\* the last call found the directory a failed npm install had left
C23_Witness ==
  /\ creates >= 2
  /\ created.found = "copied"
  /\ created.outcome = "failed"
  /\ apps[created.name] = "copied"

\* the step settles a call of the AuthStore of one of the kinds
SettlesKind(kinds) == settled'.n = settled.n + 1 /\ settled'.kind \in kinds

\* the step leaves user, token, the stored credentials and the API token
KeepsAuth ==
  /\ user' = user
  /\ token' = token
  /\ storage' = storage
  /\ apiToken' = apiToken

\* C24: a login or register whose request fails sets error to the
\* server's message or else 'Login failed' / 'Registration failed',
\* rejects, leaves user, token and the stored credentials as they were,
\* and leaves isLoading false.
C24_FailedLoginKeepsAuth ==
  [][/\ (started' = started + 1 /\ isLoading' /\ ~settled'.n = settled.n + 1)
          => KeepsAuth
     /\ (SettlesKind({"login", "register"}) /\ ~settled'.response.ok) =>
          /\ settled'.result = "rejected"
          /\ error' = IF settled'.response.message # ""
                      THEN settled'.response.message
                      ELSE IF settled'.kind = "login" THEN "Login failed"
                      ELSE "Registration failed"
          /\ KeepsAuth
          /\ ~isLoading']_vars

\* a login failed without a message while the store held credentials
C24_Witness ==
  /\ settled.kind = "login"
  /\ settled.result = "rejected"
  /\ error = "Login failed"
  /\ token # Null
  /\ storage.authToken = token

\* C25: logout resolves and leaves user, token and error null, the stored
\* keys removed and the API token cleared, whether its request succeeds
\* or fails.
C25_LogoutAlwaysClears ==
  [][SettlesKind({"logout"}) =>
       /\ settled'.result = "resolved"
       /\ user' = Null
       /\ token' = Null
       /\ error' = Null
       /\ storage' = NoStorage
       /\ apiToken' = Null]_vars

\* a logout whose request failed has settled
C25_Witness ==
  /\ settled.kind = "logout"
  /\ ~settled.response.ok
  /\ settled.result = "resolved"
  /\ token = Null
  /\ storage = NoStorage

\* a value that is there: neither null nor undefined
Held(x) == x \notin {Null, Undefined}

\* AuthStore.isAuthenticated, AuthStore.ts:23-26
IsAuthenticated == Held(token) /\ Held(user)

\* C26: in every state the store holds a token exactly when it holds a
\* user, so isAuthenticated is true exactly when a token is held.
C26_TokenIffUser ==
  /\ Held(token) <=> Held(user)
  /\ IsAuthenticated <=> Held(token)

\* C27: with every call settled, a new AuthStore over the same
\* localStorage has the token and user of the old one, and the stored keys
\* are there exactly when the store holds a token.
C27_SessionRoundTrip ==
  (started > 0 /\ pending = {}) =>
    /\ InitializeAuth(storage).token = token
    /\ InitializeAuth(storage).user = user
    /\ Held(token) => (storage.authToken # NoToken /\ storage.authUser # NoText)
    /\ ~Held(token) => (storage.authToken = NoToken /\ storage.authUser = NoText)

\* C28: isLoading is true while a login or register is in flight.
C28_LoadingWhilePending ==
  (\E q \in pending : q.kind \in {"login", "register"}) => isLoading

\* C29: from the moment a logout has settled until a call started after it
\* succeeds, the store is unauthenticated and the stored keys are removed.
C29_LogoutWins ==
  loggedOut =>
    /\ token = Null
    /\ user = Null
    /\ storage = NoStorage

\* C30: refreshToken without a token sends nothing and changes nothing;
\* with one, a successful refresh puts the response in user, token and
\* localStorage, and a failed one clears the store and rejects.
C30_RefreshToken ==
  [][/\ (started' = started + 1 /\ token = Null) =>
          \A q \in pending' \ pending : q.kind # "refresh"
     /\ (SettlesKind({"refresh"}) /\ ~settled'.sent) =>
          /\ token = Null
          /\ pending' = pending
          /\ KeepsAuth
          /\ UNCHANGED <<user, error, isLoading>>
          /\ settled'.result = "resolved"
     /\ (SettlesKind({"refresh"}) /\ settled'.sent /\ settled'.response.ok) =>
          /\ settled'.result = "resolved"
          /\ user' = settled'.response.user
          /\ token' = settled'.response.token
          /\ storage' = [authToken |-> settled'.response.token,
                         authUser |-> Stringify(settled'.response.user)]
     /\ (SettlesKind({"refresh"}) /\ settled'.sent /\ ~settled'.response.ok) =>
          /\ settled'.result = "rejected"
          /\ user' = Null
          /\ token' = Null
          /\ storage' = NoStorage
          /\ apiToken' = Null]_vars

\* a refresh has failed and cleared the store
C30_Witness ==
  /\ settled.kind = "refresh"
  /\ settled.sent
  /\ settled.result = "rejected"
  /\ token = Null
  /\ storage = NoStorage

====
